---- MODULE Spec2Model ----
(***************************************************************************)
(* Model of demoProject/ExpoAssistent/source/conf.py, the Sphinx           *)
(* configuration module of the Exploration Assistant documentation.        *)
(*                                                                         *)
(* The file is a Python module body.  A load executes its statements in    *)
(* order: two imports, one call that changes the interpreter's module      *)
(* search path, and thirteen assignments of literals to module globals.    *)
(*                                                                         *)
(* Python values carry their type: a str, a list, a dict, a bool or a      *)
(* module.  An identifier is the sequence of its parts between             *)
(* underscores (needs_types is <<"needs", "types">>).  A file system path  *)
(* is the sequence of its components; an absolute path starts at the root. *)
(***************************************************************************)
EXTENDS Integers, Sequences, FiniteSets, TLC

VARIABLES
    namespace,  \* the module's globals: identifier -> value
    sys_path,   \* the interpreter's module search path (sys.path)
    cwd,        \* the process's working directory (os.getcwd())
    pc,         \* 0: no load in progress; k > 0: statement k runs next
    parsed,     \* the globals each completed load handed to the loader
    before      \* sys.path and the working directory when the load began

vars == <<namespace, sys_path, cwd, pc, parsed, before>>

\* How many times the loader reads the file in one run.
MaxLoads == 2

\* ------------------------------------------------------------------------
\* Python values

Str(s) == [kind |-> "str", s |-> s]

List(items) == [kind |-> "list", items |-> items]

Dict(d) == [kind |-> "dict", d |-> d]

Bool(b) == [kind |-> "bool", b |-> b]

Module(name) == [kind |-> "module", name |-> name]

\* ------------------------------------------------------------------------
\* The literals of the file, under the names the file gives them

project == Str("Exploration Assistant")

copyright == Str("2025, Sam")

author == Str("Sam")

release == Str("0.1")

extensions_dup ==
    List(<<Str("sphinxcontrib.plantuml"), Str("sphinx_needs"),
           Str("sphinx_needs")>>)

extensions ==
    List(<<Str("sphinxcontrib.plantuml"), Str("sphinx_needs"),
           Str("sphinx.ext.autodoc")>>)

templates_path == List(<<Str("_templates")>>)

exclude_patterns == List(<<>>)

html_theme == Str("sphinx_rtd_theme")

html_static_path == List(<<Str("_static")>>)

\* needs_types with the SR record's prefix typed as the req record's
needs_types_dup_prefix ==
    List(<<
        Dict([directive |-> Str("req"), title |-> Str("Requirement"),
              prefix |-> Str("R_"), color |-> Str("#BFD8D2"),
              style |-> Str("node")]),
        Dict([directive |-> Str("SR"), title |-> Str("Safety Requirement"),
              prefix |-> Str("R_"), color |-> Str("#D19F3C"),
              style |-> Str("node")]),
        Dict([directive |-> Str("DFA"), title |-> Str("DFA Requirement"),
              prefix |-> Str("DFA_"), color |-> Str("#A73E89"),
              style |-> Str("node")]),
        Dict([directive |-> Str("arch"), title |-> Str("Architecture"),
              prefix |-> Str("A_"), style |-> Str("component"),
              color |-> Str("#BFD8D2")])
    >>)

\* needs_types with the DFA record's directive typed in lower case
needs_types_dfa_lower ==
    List(<<
        Dict([directive |-> Str("req"), title |-> Str("Requirement"),
              prefix |-> Str("R_"), color |-> Str("#BFD8D2"),
              style |-> Str("node")]),
        Dict([directive |-> Str("SR"), title |-> Str("Safety Requirement"),
              prefix |-> Str("SR_"), color |-> Str("#D19F3C"),
              style |-> Str("node")]),
        Dict([directive |-> Str("dfa"), title |-> Str("DFA Requirement"),
              prefix |-> Str("DFA_"), color |-> Str("#A73E89"),
              style |-> Str("node")]),
        Dict([directive |-> Str("arch"), title |-> Str("Architecture"),
              prefix |-> Str("A_"), style |-> Str("component"),
              color |-> Str("#BFD8D2")])
    >>)

needs_types ==
    List(<<
        Dict([directive |-> Str("req"), title |-> Str("Requirement"),
              prefix |-> Str("R_"), color |-> Str("#BFD8D2"),
              style |-> Str("node")]),
        Dict([directive |-> Str("SR"), title |-> Str("Safety Requirement"),
              prefix |-> Str("SR_"), color |-> Str("#D19F3C"),
              style |-> Str("node")]),
        Dict([directive |-> Str("DFA"), title |-> Str("DFA Requirement"),
              prefix |-> Str("DFA_"), color |-> Str("#A73E89"),
              style |-> Str("node")]),
        Dict([directive |-> Str("arch"), title |-> Str("Architecture"),
              prefix |-> Str("A_"), style |-> Str("component"),
              color |-> Str("#BFD8D2")])
    >>)

\* need_extra_links with the style entry left out
need_extra_links_no_style ==
    List(<<
        Dict([option |-> Str("tutorial_required_by"),
              incoming |-> Str("requires"),
              outgoing |-> Str("required by")])
    >>)

need_extra_links ==
    List(<<
        Dict([option |-> Str("tutorial_required_by"),
              incoming |-> Str("requires"),
              outgoing |-> Str("required by"),
              style |-> Str("#00AA00")])
    >>)

\* needs_extra_options with the asil record's last value repeating A_D
needs_extra_options_dup_value ==
    List(<<
        Str("image"),
        Dict([name |-> Str("asil"),
              description |-> Str("Safety Integrity Level"),
              values |-> List(<<Str("A"), Str("B"), Str("C"), Str("D"),
                                Str("A_D"), Str("B_D"), Str("A_D")>>)]),
        Dict([name |-> Str("sreqtype"),
              description |-> Str("Safety Requirement or DFA Requirement"),
              values |-> List(<<Str("SR"), Str("DFA")>>)])
    >>)

\* needs_extra_options with the sreqtype record's key values typed as value
needs_extra_options_value_key ==
    List(<<
        Str("image"),
        Dict([name |-> Str("asil"),
              description |-> Str("Safety Integrity Level"),
              values |-> List(<<Str("A"), Str("B"), Str("C"), Str("D"),
                                Str("A_D"), Str("B_D"), Str("C_D")>>)]),
        Dict([name |-> Str("sreqtype"),
              description |-> Str("Safety Requirement or DFA Requirement"),
              value |-> List(<<Str("SR"), Str("DFA")>>)])
    >>)

needs_extra_options ==
    List(<<
        Str("image"),
        Dict([name |-> Str("asil"),
              description |-> Str("Safety Integrity Level"),
              values |-> List(<<Str("A"), Str("B"), Str("C"), Str("D"),
                                Str("A_D"), Str("B_D"), Str("C_D")>>)]),
        Dict([name |-> Str("sreqtype"),
              description |-> Str("Safety Requirement or DFA Requirement"),
              values |-> List(<<Str("SR"), Str("DFA")>>)])
    >>)

needs_build_json == Bool(TRUE)

\* ------------------------------------------------------------------------
\* The statements of the module body, in the order written

Statements ==
    <<
        [op |-> "import", target |-> <<"os">>],
        [op |-> "import", target |-> <<"sys">>],
        [op |-> "path_insert"],
        [op |-> "assign", target |-> <<"project">>, value |-> project],
        [op |-> "assign", target |-> <<"copyright">>, value |-> copyright],
        [op |-> "assign", target |-> <<"author">>, value |-> author],
        [op |-> "assign", target |-> <<"release">>, value |-> release],
        [op |-> "assign", target |-> <<"extensions">>, value |-> extensions],
        [op |-> "assign", target |-> <<"templates", "path">>,
                          value |-> templates_path],
        [op |-> "assign", target |-> <<"exclude", "patterns">>,
                          value |-> exclude_patterns],
        [op |-> "assign", target |-> <<"html", "theme">>,
                          value |-> html_theme],
        [op |-> "assign", target |-> <<"html", "static", "path">>,
                          value |-> html_static_path],
        [op |-> "assign", target |-> <<"needs", "types">>,
                          value |-> needs_types],
        [op |-> "assign", target |-> <<"need", "extra", "links">>,
                          value |-> need_extra_links],
        [op |-> "assign", target |-> <<"needs", "extra", "options">>,
                          value |-> needs_extra_options],
        [op |-> "assign", target |-> <<"needs", "build", "json">>,
                          value |-> needs_build_json]
    >>

\* ------------------------------------------------------------------------
\* The library calls of line 5

\* os.path.normpath of an absolute path: "." is dropped, ".." removes the
\* component before it, and ".." at the root is dropped.
RECURSIVE normpath(_, _)
normpath(done, rest) ==
    IF rest = <<>> THEN done
    ELSE IF Head(rest) = "." THEN normpath(done, Tail(rest))
    ELSE IF Head(rest) = ".."
        THEN normpath(IF done = <<>> THEN <<>>
                      ELSE SubSeq(done, 1, Len(done) - 1), Tail(rest))
    ELSE normpath(Append(done, Head(rest)), Tail(rest))

\* os.path.abspath of a relative path: the path joined to the working
\* directory, normalised.
os_path_abspath(path, dir) == normpath(<<>>, dir \o path)

\* list.append, the call list.insert is mistaken for
list_append(l, i, x) == Append(l, x)

\* list.insert(i, x) for i >= 0: x goes before position i, or to the end.
list_insert(l, i, x) ==
    LET k == IF i > Len(l) THEN Len(l) ELSE i
    IN  SubSeq(l, 1, k) \o <<x>> \o SubSeq(l, k + 1, Len(l))

\* name += value in place of name = value: a list already bound is extended
BindExtend(ns, name, value) ==
    [n \in DOMAIN ns \cup {name} |->
        IF n # name THEN ns[n]
        ELSE IF name \in DOMAIN ns /\ value.kind = "list"
            THEN List(ns[name].items \o value.items)
        ELSE value]

\* name = value: the name is bound to the value, whatever it was bound to.
Bind(ns, name, value) ==
    [n \in DOMAIN ns \cup {name} |-> IF n = name THEN value ELSE ns[n]]

\* ------------------------------------------------------------------------
\* The environment a load starts in

Root == <<>>

ConfDir == <<"fsGaze", "demoProject", "ExpoAssistent", "source">>

WorkDirs == {Root, <<"fsGaze">>, ConfDir}

SitePackages == <<"usr", "lib", "python3", "site-packages">>

InitialPaths == {<<>>, <<SitePackages>>}

EmptyNamespace == [n \in {} |-> Bool(FALSE)]

Init ==
    /\ namespace = EmptyNamespace
    /\ sys_path \in InitialPaths
    /\ cwd \in WorkDirs
    /\ pc = 0
    /\ parsed = <<>>
    /\ before = [sys_path |-> sys_path, cwd |-> cwd]

\* ------------------------------------------------------------------------
\* Loading

\* The loader starts to execute the file: in new globals (exec of the
\* compiled file) or in the globals of the load before (a module reload).
BeginLoad(fresh) ==
    /\ pc = 0
    /\ Len(parsed) < MaxLoads
    /\ namespace' = IF fresh THEN EmptyNamespace ELSE namespace
    /\ before' = [sys_path |-> sys_path, cwd |-> cwd]
    /\ pc' = 1
    /\ UNCHANGED <<sys_path, cwd, parsed>>

\* import os, import sys
Import ==
    /\ pc \in 1..Len(Statements)
    /\ Statements[pc].op = "import"
    /\ namespace' = Bind(namespace, Statements[pc].target,
                         Module(Statements[pc].target[1]))
    /\ pc' = pc + 1
    /\ UNCHANGED <<sys_path, cwd, parsed, before>>

\* sys.path.insert(0, os.path.abspath(".."))
PathInsert ==
    /\ pc \in 1..Len(Statements)
    /\ Statements[pc].op = "path_insert"
    /\ <<"os">> \in DOMAIN namespace
    /\ <<"sys">> \in DOMAIN namespace
    /\ sys_path' = list_insert(sys_path, 0, os_path_abspath(<<"..">>, cwd))
    /\ pc' = pc + 1
    /\ UNCHANGED <<namespace, cwd, parsed, before>>

\* name = literal
Assign ==
    /\ pc \in 1..Len(Statements)
    /\ Statements[pc].op = "assign"
    /\ namespace' = Bind(namespace, Statements[pc].target,
                         Statements[pc].value)
    /\ pc' = pc + 1
    /\ UNCHANGED <<sys_path, cwd, parsed, before>>

\* The end of the file: the loader takes the globals as the configuration.
EndLoad ==
    /\ pc = Len(Statements) + 1
    /\ parsed' = Append(parsed, namespace)
    /\ pc' = 0
    /\ UNCHANGED <<namespace, sys_path, cwd, before>>

Next ==
    \/ \E fresh \in BOOLEAN : BeginLoad(fresh)
    \/ Import
    \/ PathInsert
    \/ Assign
    \/ EndLoad

Spec == Init /\ [][Next]_vars

\* ------------------------------------------------------------------------
\* Reading the globals

NeedsTypes == <<"needs", "types">>

NeedExtraLinks == <<"need", "extra", "links">>

NeedsExtraOptions == <<"needs", "extra", "options">>

Extensions == <<"extensions">>

Bound(name) == name \in DOMAIN namespace

\* A load has run to the end of the file and no other is in progress.
Loaded == pc = 0 /\ Len(parsed) >= 1

IsStr(v) == v.kind = "str"

IsDictList(v) ==
    /\ v.kind = "list"
    /\ \A i \in 1..Len(v.items) : v.items[i].kind = "dict"

HasFields(v, fields) == \A i \in 1..Len(v.items) : fields \subseteq DOMAIN v.items[i].d

NoDuplicates(items) ==
    \A i, j \in 1..Len(items) : i # j => items[i] # items[j]

UniqueField(v, field) ==
    \A i, j \in 1..Len(v.items) :
        i # j => v.items[i].d[field] # v.items[j].d[field]

\* The dict entries of the option list that are named `name`
OptionRecords(name) ==
    LET v == namespace[NeedsExtraOptions]
    IN  {i \in 1..Len(v.items) :
            /\ v.items[i].kind = "dict"
            /\ "name" \in DOMAIN v.items[i].d
            /\ v.items[i].d.name = Str(name)}

ValuesOf(i) ==
    LET l == namespace[NeedsExtraOptions].items[i].d.values.items
    IN  {l[k] : k \in 1..Len(l)}

\* The globals that the file assigns
ConfigNames ==
    {Statements[k].target :
        k \in {s \in 1..Len(Statements) : Statements[s].op = "assign"}}

\* ------------------------------------------------------------------------
\* C1: every record of needs_types has the five fields directive, title,
\* prefix, color and style, and no two records have the same directive or
\* the same prefix.
C1_TypeRecords ==
    Bound(NeedsTypes) =>
        LET v == namespace[NeedsTypes]
        IN  /\ IsDictList(v)
            /\ HasFields(v, {"directive", "title", "prefix", "color", "style"})
            /\ UniqueField(v, "directive")
            /\ UniqueField(v, "prefix")

C1_Witness ==
    /\ Loaded
    /\ Bound(NeedsTypes)
    /\ Len(namespace[NeedsTypes].items) = 4

\* C2, as stated: every link record has the four fields of the documented
\* shape {option, incoming-label, outgoing-label, color}, and no two link
\* records have the same option.
C2_LinkRecordsDocumentedShape ==
    Bound(NeedExtraLinks) =>
        LET v == namespace[NeedExtraLinks]
        IN  /\ IsDictList(v)
            /\ HasFields(v, {"option", "incoming-label", "outgoing-label",
                             "color"})
            /\ UniqueField(v, "option")

\* C2, amended: every link record has the four fields option, incoming,
\* outgoing and style, each a string (the labels are under incoming and
\* outgoing, the colour is under style, and no field is named color), and
\* no two link records have the same option.
C2_LinkRecords ==
    Bound(NeedExtraLinks) =>
        LET v == namespace[NeedExtraLinks]
        IN  /\ IsDictList(v)
            /\ HasFields(v, {"option", "incoming", "outgoing", "style"})
            /\ \A i \in 1..Len(v.items) :
                /\ \A f \in {"option", "incoming", "outgoing", "style"} :
                       IsStr(v.items[i].d[f])
                /\ "color" \notin DOMAIN v.items[i].d
            /\ UniqueField(v, "option")

C2_Witness ==
    /\ Loaded
    /\ Bound(NeedExtraLinks)
    /\ Len(namespace[NeedExtraLinks].items) = 1
    /\ namespace[NeedExtraLinks].items[1].d.option
           = Str("tutorial_required_by")

\* C3, as stated: every entry of needs_extra_options is a record with a
\* name field whose other fields are description or values.
C3_OptionEntriesAreRecords ==
    Bound(NeedsExtraOptions) =>
        LET v == namespace[NeedsExtraOptions]
        IN  /\ v.kind = "list"
            /\ \A i \in 1..Len(v.items) :
                /\ v.items[i].kind = "dict"
                /\ "name" \in DOMAIN v.items[i].d
                /\ DOMAIN v.items[i].d \subseteq
                       {"name", "description", "values"}

\* C3, amended: every entry of needs_extra_options is either a bare string,
\* which names the option, or a record with a name field whose other fields
\* are description or values.
C3_OptionEntries ==
    Bound(NeedsExtraOptions) =>
        LET v == namespace[NeedsExtraOptions]
        IN  /\ v.kind = "list"
            /\ \A i \in 1..Len(v.items) :
                \/ IsStr(v.items[i])
                \/ /\ v.items[i].kind = "dict"
                   /\ "name" \in DOMAIN v.items[i].d
                   /\ DOMAIN v.items[i].d \subseteq
                          {"name", "description", "values"}

C3_Witness ==
    /\ Loaded
    /\ Bound(NeedsExtraOptions)
    /\ namespace[NeedsExtraOptions].items[1] = Str("image")
    /\ namespace[NeedsExtraOptions].items[2].kind = "dict"

\* C4: once the file is loaded, the link records are bound to a name that
\* starts with needs_, as the names of the type records, the option records
\* and the build flag do, and the list under that name has the option
\* tutorial_required_by.
C4_LinksUnderNeedsPrefix ==
    Loaded =>
        /\ \A n \in {NeedsTypes, NeedsExtraOptions,
                     <<"needs", "build", "json">>} :
               Bound(n) /\ Head(n) = "needs"
        /\ \E n \in DOMAIN namespace :
            /\ Head(n) = "needs"
            /\ namespace[n].kind = "list"
            /\ \E i \in 1..Len(namespace[n].items) :
                /\ namespace[n].items[i].kind = "dict"
                /\ "option" \in DOMAIN namespace[n].items[i].d
                /\ namespace[n].items[i].d.option
                       = Str("tutorial_required_by")

\* C5, as stated: a load leaves everything outside the file's own
\* variables as it was: the module search path and the working directory
\* after a load are those before it.
C5_LoadChangesNothingElse ==
    Loaded => sys_path = before.sys_path /\ cwd = before.cwd

\* C5, amended: a load changes one thing outside the file's own variables:
\* it puts the parent of the working directory (the root, when the working
\* directory is the root) at the front of the module search path.  The rest
\* of the search path and the working directory are as before the load.
C5_LoadPrependsParent ==
    Loaded =>
        /\ cwd = before.cwd
        /\ sys_path =
               <<IF cwd = <<>> THEN <<>> ELSE SubSeq(cwd, 1, Len(cwd) - 1)>>
                   \o before.sys_path

C5_Witness ==
    /\ Loaded
    /\ Len(before.sys_path) = 1
    /\ Len(sys_path) = 2
    /\ cwd = ConfDir
    /\ sys_path[1] = <<"fsGaze", "demoProject", "ExpoAssistent">>

\* C6: every load gives the same values to the configuration variables:
\* any two completed loads agree on every variable the file assigns.
C6_ReloadIdentical ==
    \A i, j \in 1..Len(parsed) :
        \A n \in ConfigNames :
            /\ n \in DOMAIN parsed[i]
            /\ n \in DOMAIN parsed[j]
            /\ parsed[i][n] = parsed[j][n]

C6_Witness ==
    /\ Len(parsed) >= 2
    /\ pc = 0
    /\ parsed[1][Extensions] = parsed[2][Extensions]
    /\ Len(sys_path) > Len(before.sys_path)

\* C7: every record of needs_extra_options that has a values field has a
\* list of at least one value there, and no value is in the list twice.
C7_ValuesEnumerations ==
    Bound(NeedsExtraOptions) =>
        LET v == namespace[NeedsExtraOptions]
        IN  \A i \in 1..Len(v.items) :
                (v.items[i].kind = "dict" /\ "values" \in DOMAIN v.items[i].d)
                    => /\ v.items[i].d.values.kind = "list"
                       /\ Len(v.items[i].d.values.items) >= 1
                       /\ NoDuplicates(v.items[i].d.values.items)

C7_Witness ==
    /\ Loaded
    /\ Bound(NeedsExtraOptions)
    /\ Cardinality({i \in 1..Len(namespace[NeedsExtraOptions].items) :
            /\ namespace[NeedsExtraOptions].items[i].kind = "dict"
            /\ "values" \in DOMAIN namespace[NeedsExtraOptions].items[i].d})
         = 2

\* The letters A, B, C and D, each alone and with _D after it
AsilForm == {Str(l \o s) : l \in {"A", "B", "C", "D"}, s \in {"", "_D"}}

\* C8: the values of the option asil are the letters A, B, C and D, each
\* alone and with _D after it: every value listed has that form, and every
\* value of that form is listed.
C8_AsilValues ==
    Bound(NeedsExtraOptions) =>
        /\ OptionRecords("asil") # {}
        /\ \A i \in OptionRecords("asil") : ValuesOf(i) = AsilForm

\* C9: extensions is a list of non-empty strings, none of them twice, in
\* the order written: sphinxcontrib.plantuml, sphinx_needs,
\* sphinx.ext.autodoc.
C9_Extensions ==
    Bound(Extensions) =>
        LET v == namespace[Extensions]
        IN  /\ v.kind = "list"
            /\ \A i \in 1..Len(v.items) :
                   IsStr(v.items[i]) /\ v.items[i].s # ""
            /\ NoDuplicates(v.items)
            /\ Len(v.items) = 3
            /\ v.items[1].s = "sphinxcontrib.plantuml"
            /\ v.items[2].s = "sphinx_needs"
            /\ v.items[3].s = "sphinx.ext.autodoc"

C9_Witness ==
    /\ Loaded
    /\ Bound(Extensions)
    /\ Len(namespace[Extensions].items) = 3

\* C10: every value of the option sreqtype is the directive of a record of
\* needs_types.
C10_SreqtypeNamesTypes ==
    (Bound(NeedsExtraOptions) /\ Bound(NeedsTypes)) =>
        LET t == namespace[NeedsTypes].items
        IN  /\ OptionRecords("sreqtype") # {}
            /\ \A i \in OptionRecords("sreqtype") :
                   \A x \in ValuesOf(i) :
                       \E k \in 1..Len(t) : t[k].d.directive = x

C10_Witness ==
    /\ Loaded
    /\ Bound(NeedsTypes)
    /\ \E i \in OptionRecords("sreqtype") :
           ValuesOf(i) = {Str("SR"), Str("DFA")}

====
